---- MODULE Spec2Model ----
(***************************************************************************)
(* Model of log.py: the Level enum, _ensure_level, the two formatters, the *)
(* Log class (level stacks, sinks, log, set_global) and the module-level   *)
(* facade that delegates to the global logger _LOG.                        *)
(*                                                                         *)
(* Python values that can be passed as a level are records                 *)
(* [kind, name]: a Level member, a str, or None.                           *)
(***************************************************************************)
EXTENDS Integers, Sequences, FiniteSets, TLC

(***************************************************************************)
(* Bounds of the model.                                                    *)
(***************************************************************************)
\* outstanding pushes (over all level stacks) plus records written (lines
\* on the console, records in the files of a logger) after which no
\* further push or log call is made
MaxWork == 2

(***************************************************************************)
(* Python values.                                                          *)
(***************************************************************************)
None == [kind |-> "NoneType", name |-> "None"]

Str(s) == [kind |-> "str", name |-> s]

LevelMember(n) == [kind |-> "Level", name |-> n]

Error == LevelMember("Error")

Warning == LevelMember("Warning")

Log == LevelMember("Log")

Info == LevelMember("Info")

Debug == LevelMember("Debug")

\* class Level(Enum): the members in declaration order
LevelDecl == <<Error, Warning, Log, Info, Debug>>

Level == {LevelDecl[i] : i \in DOMAIN LevelDecl}

\* Level.<member>.value: auto() numbers the members 1, 2, ... as declared
Value(lvl) == CHOOSE i \in DOMAIN LevelDecl : LevelDecl[i] = lvl

\* level.name.lower()
NameLower(lvl) ==
    CASE lvl = Error -> "error"
      [] lvl = Warning -> "warning"
      [] lvl = Log -> "log"
      [] lvl = Info -> "info"
      [] lvl = Debug -> "debug"

\* the dict literal of _ensure_level
LevelDict ==
    ("error" :> Error) @@ ("warning" :> Warning) @@ ("log" :> Log)
        @@ ("info" :> Info) @@ ("debug" :> Debug)

\* texts a caller passes as a level name
Names == {"error", "warning", "log", "info", "debug", "Error", "bogus"}

StrArgs == {Str(s) : s \in Names}

\* _ensure_level that also takes the capitalised member name Error
ensure_level_anycase(lvl) ==
    IF lvl.kind = "str"
    THEN IF lvl.name \in DOMAIN LevelDict
         THEN [err |-> "", val |-> LevelDict[lvl.name]]
         ELSE IF lvl.name = "Error"
              THEN [err |-> "", val |-> Error]
              ELSE [err |-> "ValueError: Invalid level name", val |-> None]
    ELSE [err |-> "", val |-> lvl]

\* _ensure_level(level): [err, val]; err # "" when the call raises
ensure_level(lvl) ==
    IF lvl.kind = "str"
    THEN IF lvl.name \in DOMAIN LevelDict
         THEN [err |-> "", val |-> LevelDict[lvl.name]]
         ELSE [err |-> "ValueError: Invalid level name", val |-> None]
    ELSE [err |-> "", val |-> lvl]

\* _colors
colors ==
    [lvl \in Level |->
        CASE lvl = Error -> "31m"
          [] lvl = Warning -> "33m"
          [] lvl = Log -> "32m"
          [] lvl = Info -> "34m"
          [] lvl = Debug -> "35m"]

Messages == {"a"}

\* messages json.dumps has no encoding for (message is any object)
Objects == {"o"}

Times == {"t"}

\* time.isoformat()
isoformat(time) == <<"iso", time>>

\* the record dict built by Log.log
Record(time, lvl, message) == [time |-> time, lvl |-> lvl, message |-> message]

\* json_formatter(record): time as ISO text, level as its number, message
json_formatter(record) ==
    [fmt |-> "json", time |-> isoformat(record.time),
     lvl |-> Value(record.lvl), message |-> record.message]

\* json_formatter(record) raises: json.dumps raises TypeError for a message
\* it cannot encode
json_formatter_raises(record) == record.message \in Objects

\* json_formatter writing the ISO text of the time into the dict it was
\* given
json_formatter_arg_inplace(record) ==
    [record EXCEPT !.time = isoformat(record.time)]

\* the dict of the caller after json_formatter(record) has returned: the
\* function rebinds its parameter to a deep copy and writes to the copy
json_formatter_arg(record) == record

\* stdout_formatter(record): "<time> - <colour><name lower><reset> - <message>"
stdout_formatter(record) ==
    [fmt |-> "stdout", time |-> record.time,
     lvl |-> <<colors[record.lvl], NameLower(record.lvl), "0m">>,
     message |-> record.message]

(***************************************************************************)
(* State.                                                                  *)
(***************************************************************************)
\* the Log objects of the run: the default logger of the module and two
\* loggers built by the client
Loggers == {"D", "A", "B"}

VARIABLES
    file_levels,   \* self._file_levels of every logger
    levels,        \* self._levels of every logger
    stdout,        \* self._stdout of every logger
    ofiles,        \* self._ofiles of every logger: the lines of every sink
    LOG,           \* the module global _LOG: a logger or "None"
    console,       \* the lines print() wrote
    last,          \* the last call: its entry point (a method of Log or a
                   \* function of the module), what it raised, what it returned
    pc             \* of every thread: the statement it is at inside a call
                   \* of Log.file_level, Log.level or Log.set_global, and
                   \* the locals of that call

vars == <<file_levels, levels, stdout, ofiles, LOG, console, last, pc>>

\* the threads of the run that are followed statement by statement
Threads == {"t1", "t2"}

\* a thread that is inside no call
Idle == [at |-> "idle", self |-> "None", seen |-> 0, prev |-> "None",
         over |-> "None"]

PyLog(l) == [kind |-> "Log", name |-> l]

Top(stack) == stack[Len(stack)]

\* pushes outstanding on a stack: what it holds over its first element
Over(stack) == IF Len(stack) > 1 THEN Len(stack) - 1 ELSE 0

\* pushes outstanding on the two stacks of logger l
PushedOn(l) == Over(file_levels[l]) + Over(levels[l])

Pushed == PushedOn("D") + PushedOn("A") + PushedOn("B")

\* records written to files by logger l: the length of its longest sink
RECURSIVE LinesIn(_, _)
LinesIn(l, i) ==
    IF i = 0 THEN 0
    ELSE LET n == LinesIn(l, i - 1)
         IN IF Len(ofiles[l][i]) > n THEN Len(ofiles[l][i]) ELSE n

LinesOf(l) == LinesIn(l, Len(ofiles[l]))

Lines == Len(console) + LinesOf("D") + LinesOf("A") + LinesOf("B")

Work == Pushed + Lines

\* Log.__init__ with the console threshold defaulting to Level.Log, not to
\* file_level
Log_init_fixed(nsinks, file_level_arg, stdout_arg, stdout_level) ==
    [file_levels |-> <<file_level_arg>>,
     levels |-> IF stdout_level = None THEN <<Log>> ELSE <<stdout_level>>,
     stdout |-> stdout_arg,
     ofiles |-> [i \in 1..nsinks |-> <<>>]]

\* Log.__init__(*opaths, file_level, stdout, stdout_level) with opaths of
\* nsinks entries: the fields of the new object
Log_init(nsinks, file_level_arg, stdout_arg, stdout_level) ==
    [file_levels |-> <<file_level_arg>>,
     levels |-> IF stdout_level = None THEN <<file_level_arg>>
                ELSE <<stdout_level>>,
     stdout |-> stdout_arg,
     ofiles |-> [i \in 1..nsinks |-> <<>>]]

\* the objects of the run: Log() of the module, and the client's loggers
Built ==
    [l \in Loggers |->
        CASE l = "D" -> Log_init(0, Log, TRUE, None)
          [] l = "A" -> Log_init(2, Warning, FALSE, None)
          [] l = "B" -> Log_init(1, Log, TRUE, Warning)]

\* the module without its last statement, Log().set_global()
Init_nostartup ==
    /\ file_levels = [l \in Loggers |-> Built[l].file_levels]
    /\ levels = [l \in Loggers |-> Built[l].levels]
    /\ stdout = [l \in Loggers |-> Built[l].stdout]
    /\ ofiles = [l \in Loggers |-> Built[l].ofiles]
    /\ LOG = "None"
    /\ console = <<>>
    /\ last = [entry |-> "Log", err |-> "", ret |-> None]
    /\ pc = [t \in Threads |-> Idle]

Init ==
    /\ file_levels = [l \in Loggers |-> Built[l].file_levels]
    /\ levels = [l \in Loggers |-> Built[l].levels]
    /\ stdout = [l \in Loggers |-> Built[l].stdout]
    /\ ofiles = [l \in Loggers |-> Built[l].ofiles]
    /\ LOG = "D"
    /\ console = <<>>
    /\ last = [entry |-> "Log", err |-> "", ret |-> None]
    /\ pc = [t \in Threads |-> Idle]

(***************************************************************************)
(* Methods of Log.                                                         *)
(***************************************************************************)
\* Log.set_global(self)
Log_set_global(self) ==
    /\ UNCHANGED <<file_levels, levels, stdout, ofiles, console, pc>>
    /\ LOG' = self
    /\ last' = [entry |-> "Log", err |-> "",
                ret |-> IF LOG = "None" THEN None ELSE PyLog(LOG)]

\* file_level_body with the length test off by one: pops a stack of length 1
file_level_body_offbyone(stack, new_level) ==
    IF new_level = None
    THEN IF Len(stack) < 1
         THEN [stack |-> stack, err |-> "ValueError", ret |-> None]
         ELSE [stack |-> SubSeq(stack, 1, Len(stack) - 1), err |-> "",
               ret |-> Top(stack)]
    ELSE LET e == ensure_level(new_level)
         IN IF e.err # ""
            THEN [stack |-> stack, err |-> e.err, ret |-> None]
            ELSE [stack |-> Append(stack, e.val), err |-> "", ret |-> None]

\* file_level_body with a pop of a stack of length 1 returning silently
file_level_body_silent(stack, new_level) ==
    IF new_level = None
    THEN IF Len(stack) < 2
         THEN [stack |-> stack, err |-> "", ret |-> None]
         ELSE [stack |-> SubSeq(stack, 1, Len(stack) - 1), err |-> "",
               ret |-> Top(stack)]
    ELSE LET e == ensure_level(new_level)
         IN IF e.err # ""
            THEN [stack |-> stack, err |-> e.err, ret |-> None]
            ELSE [stack |-> Append(stack, e.val), err |-> "", ret |-> None]

\* the body of Log.file_level(self, new_level) on stack = self._file_levels:
\* the stack afterwards, what is raised, what is returned
file_level_body(stack, new_level) ==
    IF new_level = None
    THEN IF Len(stack) < 2
         THEN [stack |-> stack, err |-> "ValueError", ret |-> None]
         ELSE [stack |-> SubSeq(stack, 1, Len(stack) - 1), err |-> "",
               ret |-> Top(stack)]
    ELSE LET e == ensure_level(new_level)
         IN IF e.err # ""
            THEN [stack |-> stack, err |-> e.err, ret |-> None]
            ELSE [stack |-> Append(stack, e.val), err |-> "", ret |-> None]

\* level_body with a push that puts the new level under the stack
level_body_prepend(stack, new_level) ==
    IF new_level = None
    THEN IF Len(stack) < 2
         THEN [stack |-> stack, err |-> "ValueError", ret |-> None]
         ELSE [stack |-> SubSeq(stack, 1, Len(stack) - 1), err |-> "",
               ret |-> Top(stack)]
    ELSE LET e == ensure_level(new_level)
         IN IF e.err # ""
            THEN [stack |-> stack, err |-> e.err, ret |-> None]
            ELSE [stack |-> <<e.val>> \o stack, err |-> "", ret |-> None]

\* level_body appending what it was given before it looks the name up
level_body_pushfirst(stack, new_level) ==
    IF new_level = None
    THEN IF Len(stack) < 2
         THEN [stack |-> stack, err |-> "ValueError", ret |-> None]
         ELSE [stack |-> SubSeq(stack, 1, Len(stack) - 1), err |-> "",
               ret |-> Top(stack)]
    ELSE LET e == ensure_level(new_level)
         IN IF e.err # ""
            THEN [stack |-> Append(stack, new_level), err |-> e.err,
                  ret |-> None]
            ELSE [stack |-> Append(stack, e.val), err |-> "", ret |-> None]

\* the body of Log.level(self, new_level) on stack = self._levels
level_body(stack, new_level) ==
    IF new_level = None
    THEN IF Len(stack) < 2
         THEN [stack |-> stack, err |-> "ValueError", ret |-> None]
         ELSE [stack |-> SubSeq(stack, 1, Len(stack) - 1), err |-> "",
               ret |-> Top(stack)]
    ELSE LET e == ensure_level(new_level)
         IN IF e.err # ""
            THEN [stack |-> stack, err |-> e.err, ret |-> None]
            ELSE [stack |-> Append(stack, e.val), err |-> "", ret |-> None]

\* Log.file_level on a logger whose two stacks are one list
Log_file_level_shared(self, new_level) ==
    /\ UNCHANGED <<stdout, ofiles, LOG, console, pc>>
    /\ LET r == file_level_body(file_levels[self], new_level)
       IN /\ file_levels' = [file_levels EXCEPT ![self] = r.stack]
          /\ levels' = [levels EXCEPT ![self] = r.stack]
          /\ last' = [entry |-> "Log", err |-> r.err, ret |-> r.ret]

\* Log.file_level(self, new_level=None)
Log_file_level(self, new_level) ==
    /\ UNCHANGED <<levels, stdout, ofiles, LOG, console, pc>>
    /\ LET r == file_level_body(file_levels[self], new_level)
       IN /\ file_levels' = [file_levels EXCEPT ![self] = r.stack]
          /\ last' = [entry |-> "Log", err |-> r.err, ret |-> r.ret]

\* Log.level(self, new_level=None)
Log_level(self, new_level) ==
    /\ UNCHANGED <<file_levels, stdout, ofiles, LOG, console, pc>>
    /\ LET r == level_body(levels[self], new_level)
       IN /\ levels' = [levels EXCEPT ![self] = r.stack]
          /\ last' = [entry |-> "Log", err |-> r.err, ret |-> r.ret]

\* the file test with > for >=
file_admits_strict(self, lvl) == Value(Top(file_levels[self])) > Value(lvl)

\* the file test passing only for a logger that has sinks to write to
file_admits_sinks(self, lvl) ==
    ofiles[self] # <<>> /\ Value(Top(file_levels[self])) >= Value(lvl)

\* the file test of Log.log: self._file_levels[-1].value >= level.value
file_admits(self, lvl) == Value(Top(file_levels[self])) >= Value(lvl)

\* the console test without the self._stdout flag
stdout_admits_noflag(self, lvl) == Value(Top(levels[self])) >= Value(lvl)

\* the console test made only for a record the file test let through
stdout_admits_iffile(self, lvl) ==
    /\ stdout[self]
    /\ Value(Top(file_levels[self])) >= Value(lvl)
    /\ Value(Top(levels[self])) >= Value(lvl)

\* the console test of Log.log:
\* self._stdout and self._levels[-1].value >= level.value
stdout_admits(self, lvl) ==
    stdout[self] /\ Value(Top(levels[self])) >= Value(lvl)

\* for ofile in self._ofiles: ofile.write(line) with the first sink only
write_all_first(files, line) ==
    [i \in DOMAIN files |-> IF i = 1 THEN Append(files[i], line) ELSE files[i]]

\* for ofile in self._ofiles: ofile.write(f"{record_str}\n")
write_all(files, line) == [i \in DOMAIN files |-> Append(files[i], line)]

\* the body of Log.log(self, message, level) at time now: what is raised,
\* the sinks of self and the console afterwards, and the calls of the two
\* formatters with the dict each was handed.  An empty level stack has no
\* last element (IndexError); a level that is no Level member has no
\* attribute value (AttributeError); both are raised by the file test,
\* before anything is written.  The console test reads its stack after the
\* files are written.
log_body(self, message, lvl, now) ==
    LET record == Record(now, lvl, message)
        raise(e) == [err |-> e, ofiles |-> ofiles[self], console |-> console,
                     calls |-> <<>>]
    IN IF file_levels[self] = <<>> THEN raise("IndexError")
       ELSE IF lvl.kind # "Level" THEN raise("AttributeError")
       ELSE LET admitted == file_admits(self, lvl)
                fcalls == IF admitted
                          THEN <<[fn |-> "formatter", record |-> record]>>
                          ELSE <<>>
            IN IF admitted /\ json_formatter_raises(record)
               THEN [err |-> "TypeError", ofiles |-> ofiles[self],
                     console |-> console, calls |-> fcalls]
               ELSE LET files == IF admitted
                                 THEN write_all(ofiles[self],
                                                json_formatter(record))
                                 ELSE ofiles[self]
                        rec == IF admitted THEN json_formatter_arg(record)
                               ELSE record
                    IN IF stdout[self] /\ levels[self] = <<>>
                       THEN [err |-> "IndexError", ofiles |-> files,
                             console |-> console, calls |-> fcalls]
                       ELSE IF stdout_admits(self, lvl)
                            THEN [err |-> "", ofiles |-> files,
                                  console |->
                                    Append(console, stdout_formatter(rec)),
                                  calls |-> fcalls \o
                                    <<[fn |-> "stdout_formatter",
                                       record |-> rec]>>]
                            ELSE [err |-> "", ofiles |-> files,
                                  console |-> console, calls |-> fcalls]

\* a call of Log.log(self, message, level) entered at a method of Log or
\* at a function of the module
LogCall(entry, self, message, lvl) ==
    /\ UNCHANGED <<file_levels, levels, stdout, LOG, pc>>
    /\ \E now \in Times :
         LET r == log_body(self, message, lvl, now)
         IN /\ ofiles' = [ofiles EXCEPT ![self] = r.ofiles]
            /\ console' = r.console
            /\ last' = [entry |-> entry, err |-> r.err, ret |-> None]

\* Log.log(self, message, level=Level.Log)
Log_log(self, message, lvl) == LogCall("Log", self, message, lvl)

\* Log.error(self, message)
Log_error(self, message) == Log_log(self, message, Error)

\* Log.warn(self, message)
Log_warn(self, message) == Log_log(self, message, Warning)

\* Log.info(self, message)
Log_info(self, message) == Log_log(self, message, Info)

\* Log.debug(self, message)
Log_debug(self, message) == Log_log(self, message, Debug)

(***************************************************************************)
(* The module-level facade.                                                *)
(***************************************************************************)
\* a facade without the test of _LOG: None has no method to call
NoOp_raises ==
    /\ UNCHANGED <<file_levels, levels, stdout, ofiles, LOG, console, pc>>
    /\ last' = [entry |-> "module", err |-> "AttributeError", ret |-> None]

\* the branch not taken when _LOG is None: the call returns None
NoOp ==
    /\ UNCHANGED <<file_levels, levels, stdout, ofiles, LOG, console, pc>>
    /\ last' = [entry |-> "module", err |-> "", ret |-> None]

\* file_level of the module acting on the default logger, not on _LOG
file_level_default(lvl) ==
    /\ UNCHANGED <<levels, stdout, ofiles, LOG, console, pc>>
    /\ LET r == file_level_body(file_levels["D"], lvl)
       IN /\ file_levels' = [file_levels EXCEPT !["D"] = r.stack]
          /\ last' = [entry |-> "module", err |-> r.err, ret |-> None]

\* file_level(level=None): the result of _LOG.file_level is not returned
file_level(lvl) ==
    IF LOG # "None"
    THEN /\ UNCHANGED <<levels, stdout, ofiles, LOG, console, pc>>
         /\ LET r == file_level_body(file_levels[LOG], lvl)
            IN /\ file_levels' = [file_levels EXCEPT ![LOG] = r.stack]
               /\ last' = [entry |-> "module", err |-> r.err, ret |-> None]
    ELSE NoOp

\* level(level=None): the result of _LOG.level is not returned
level(lvl) ==
    IF LOG # "None"
    THEN /\ UNCHANGED <<file_levels, stdout, ofiles, LOG, console, pc>>
         /\ LET r == level_body(levels[LOG], lvl)
            IN /\ levels' = [levels EXCEPT ![LOG] = r.stack]
               /\ last' = [entry |-> "module", err |-> r.err, ret |-> None]
    ELSE NoOp

\* log(message, level=Level.Log)
log(message, lvl) ==
    IF LOG # "None" THEN LogCall("module", LOG, message, lvl) ELSE NoOp

\* error(message)
error(message) == log(message, Error)

\* warn(message)
warn(message) == log(message, Warning)

\* info(message)
info(message) == log(message, Info)

\* debug(message)
debug(message) == log(message, Debug)

(***************************************************************************)
(* The program: any caller, any call.                                      *)
(***************************************************************************)
\* what a caller passes as a level: a member or a text
LevelArgs == Level \cup StrArgs

\* what a caller passes to file_level and level: None pops
StackArgs == {None} \cup LevelArgs

\* the levels the callers of this run push, as members and as texts; with
\* the levels the loggers are built with, every member gets to the top of
\* a stack of either channel
PushArgs ==
    {Error, Info, Debug}
        \cup {Str(s) : s \in {"debug", "Error", "bogus"}}

\* the levels the callers of this run log at: every member, a level name
\* and a text that is no level name
LogArgs == Level \cup {Str(s) : s \in {"error", "bogus"}}

\* what a caller passes as a message
Payloads == Messages \cup Objects

\* the log calls of this run: a message at any of the levels, an object
\* json.dumps cannot encode at the two ends of the scale
LogCalls ==
    (Messages \X LogArgs) \cup (Objects \X {Error, Debug})

\* pushes and log calls are made while the work done is under the bound
UnderBound == Work < MaxWork

Next ==
    \/ \E self \in Loggers : Log_set_global(self)
    \/ \E self \in Loggers : Log_file_level(self, None)
    \/ UnderBound /\ \E self \in Loggers, new_level \in PushArgs :
         Log_file_level(self, new_level)
    \/ \E self \in Loggers : Log_level(self, None)
    \/ UnderBound /\ \E self \in Loggers, new_level \in PushArgs :
         Log_level(self, new_level)
    \/ UnderBound /\ \E self \in Loggers, c \in LogCalls :
         Log_log(self, c[1], c[2])
    \/ UnderBound /\ \E self \in Loggers, message \in Messages :
         Log_error(self, message)
    \/ UnderBound /\ \E self \in Loggers, message \in Messages :
         Log_warn(self, message)
    \/ UnderBound /\ \E self \in Loggers, message \in Messages :
         Log_info(self, message)
    \/ UnderBound /\ \E self \in Loggers, message \in Messages :
         Log_debug(self, message)
    \/ file_level(None)
    \/ UnderBound /\ \E lvl \in PushArgs : file_level(lvl)
    \/ level(None)
    \/ UnderBound /\ \E lvl \in PushArgs : level(lvl)
    \/ UnderBound /\ \E c \in LogCalls : log(c[1], c[2])
    \/ UnderBound /\ \E message \in Messages : error(message)
    \/ UnderBound /\ \E message \in Messages : warn(message)
    \/ UnderBound /\ \E message \in Messages : info(message)
    \/ UnderBound /\ \E message \in Messages : debug(message)

Spec == Init /\ [][Next]_vars

\* The module before its last statement runs: _LOG as declared, holding no
\* logger (also what a caller gets by assigning None to the module global).
InitUnset ==
    /\ file_levels = [l \in Loggers |-> Built[l].file_levels]
    /\ levels = [l \in Loggers |-> Built[l].levels]
    /\ stdout = [l \in Loggers |-> Built[l].stdout]
    /\ ofiles = [l \in Loggers |-> Built[l].ofiles]
    /\ LOG = "None"
    /\ console = <<>>
    /\ last = [entry |-> "Log", err |-> "", ret |-> None]
    /\ pc = [t \in Threads |-> Idle]

SpecUnset == InitUnset /\ [][Next]_vars

(***************************************************************************)
(* Threads.  The statements of a pop and of set_global, taken one at a     *)
(* time by the threads of Threads: nothing in the module locks, so another *)
(* thread may run between any two of them.                                 *)
(***************************************************************************)
\* the length test of a pop refusing only an empty stack
pop_refused_offbyone(stack) == Len(stack) < 1

\* if len(self._file_levels) < 2 / if len(self._levels) < 2
pop_refused(stack) == Len(stack) < 2

\* list.pop() on stack: IndexError on an empty list
list_pop(stack) ==
    IF stack = <<>>
    THEN [stack |-> stack, err |-> "IndexError", ret |-> None]
    ELSE [stack |-> SubSeq(stack, 1, Len(stack) - 1), err |-> "",
          ret |-> Top(stack)]

\* Log.file_level(self) in thread t up to the length test: raise
\* ValueError, or go on to the pop
Log_file_level_test(t, self) ==
    /\ pc[t].at = "idle"
    /\ UNCHANGED <<file_levels, levels, stdout, ofiles, LOG, console>>
    /\ IF pop_refused(file_levels[self])
       THEN /\ pc' = [pc EXCEPT ![t] = Idle]
            /\ last' = [entry |-> "Log", err |-> "ValueError", ret |-> None]
       ELSE /\ pc' = [pc EXCEPT ![t] =
                        [Idle EXCEPT !.at = "file_pop", !.self = self,
                                     !.seen = Len(file_levels[self])]]
            /\ UNCHANGED last

\* return self._file_levels.pop() in thread t
Log_file_level_pop(t) ==
    /\ pc[t].at = "file_pop"
    /\ UNCHANGED <<levels, stdout, ofiles, LOG, console>>
    /\ LET r == list_pop(file_levels[pc[t].self])
       IN /\ file_levels' = [file_levels EXCEPT ![pc[t].self] = r.stack]
          /\ last' = [entry |-> "Log", err |-> r.err, ret |-> r.ret]
    /\ pc' = [pc EXCEPT ![t] = Idle]

\* Log.level(self) in thread t up to the length test
Log_level_test(t, self) ==
    /\ pc[t].at = "idle"
    /\ UNCHANGED <<file_levels, levels, stdout, ofiles, LOG, console>>
    /\ IF pop_refused(levels[self])
       THEN /\ pc' = [pc EXCEPT ![t] = Idle]
            /\ last' = [entry |-> "Log", err |-> "ValueError", ret |-> None]
       ELSE /\ pc' = [pc EXCEPT ![t] =
                        [Idle EXCEPT !.at = "level_pop", !.self = self,
                                     !.seen = Len(levels[self])]]
            /\ UNCHANGED last

\* return self._levels.pop() in thread t
Log_level_pop(t) ==
    /\ pc[t].at = "level_pop"
    /\ UNCHANGED <<file_levels, stdout, ofiles, LOG, console>>
    /\ LET r == list_pop(levels[pc[t].self])
       IN /\ levels' = [levels EXCEPT ![pc[t].self] = r.stack]
          /\ last' = [entry |-> "Log", err |-> r.err, ret |-> r.ret]
    /\ pc' = [pc EXCEPT ![t] = Idle]

\* the levels pushed and logged at while the threads pop
RaceArgs == {Error, Debug}

\* the logger the threads of this run work on: the one with a sink and
\* console output
Raced == {"B"}

\* threads popping, one statement at a time, among pushes and log calls
NextPops ==
    \/ \E t \in Threads, self \in Raced : Log_file_level_test(t, self)
    \/ \E t \in Threads : Log_file_level_pop(t)
    \/ \E t \in Threads, self \in Raced : Log_level_test(t, self)
    \/ \E t \in Threads : Log_level_pop(t)
    \/ UnderBound /\ \E self \in Raced, new_level \in RaceArgs :
         Log_file_level(self, new_level)
    \/ UnderBound /\ \E self \in Raced, new_level \in RaceArgs :
         Log_level(self, new_level)
    \/ UnderBound /\ \E self \in Raced, message \in Messages,
                        lvl \in RaceArgs : Log_log(self, message, lvl)

SpecPops == Init /\ [][NextPops]_vars

\* prev = _LOG in thread t calling self.set_global()
Log_set_global_load(t, self) ==
    /\ pc[t].at = "idle"
    /\ UNCHANGED <<file_levels, levels, stdout, ofiles, LOG, console, last>>
    /\ pc' = [pc EXCEPT ![t] =
                [Idle EXCEPT !.at = "store", !.self = self, !.prev = LOG]]

\* set_global returning what _LOG holds when it stores, not what it read
set_global_return_slot(t) == IF LOG = "None" THEN None ELSE PyLog(LOG)

\* return prev in thread t
set_global_return(t) ==
    IF pc[t].prev = "None" THEN None ELSE PyLog(pc[t].prev)

\* _LOG = self; return prev in thread t.  The thread keeps the logger it
\* installed, the one it returned, and over: the one its store replaced.
Log_set_global_store(t) ==
    /\ pc[t].at = "store"
    /\ UNCHANGED <<file_levels, levels, stdout, ofiles, console>>
    /\ LOG' = pc[t].self
    /\ last' = [entry |-> "Log", err |-> "", ret |-> set_global_return(t)]
    /\ pc' = [pc EXCEPT ![t] = [pc[t] EXCEPT !.at = "idle", !.over = LOG]]

\* threads calling set_global, one statement at a time, among calls of the
\* module's error
NextGlobals ==
    \/ \E t \in Threads, self \in Loggers : Log_set_global_load(t, self)
    \/ \E t \in Threads : Log_set_global_store(t)
    \/ UnderBound /\ \E message \in Messages : error(message)

SpecGlobals == Init /\ [][NextGlobals]_vars

(***************************************************************************)
(* Properties.                                                             *)
(***************************************************************************)
\* the rank table of the specification
rank(lvl) ==
    CASE lvl.name = "Error" -> 1
      [] lvl.name = "Warning" -> 2
      [] lvl.name = "Log" -> 3
      [] lvl.name = "Info" -> 4
      [] lvl.name = "Debug" -> 5

\* the five recognized names and the severity each stands for
Recognized == {"error", "warning", "log", "info", "debug"}

parseSeverity(n) ==
    CASE n = "error" -> Error
      [] n = "warning" -> Warning
      [] n = "log" -> Log
      [] n = "info" -> Info
      [] n = "debug" -> Debug

severityToName(lvl) ==
    CASE lvl.name = "Error" -> "error"
      [] lvl.name = "Warning" -> "warning"
      [] lvl.name = "Log" -> "log"
      [] lvl.name = "Info" -> "info"
      [] lvl.name = "Debug" -> "debug"

\* seq is old with exactly one line added at its end
OneLineMore(old, seq) ==
    Len(seq) = Len(old) + 1 /\ SubSeq(seq, 1, Len(old)) = old

\* everything but the record of the last call
state == <<file_levels, levels, stdout, ofiles, console, LOG>>

\* C1: in every reachable state a call log(m, S) on a logger whose file
\* stack has top T adds one line to every file sink of the logger if
\* rank(T) >= rank(S) and leaves every sink as it was otherwise; and a sink
\* only ever changes by one added line of a severity its threshold admits.
C1_FileFiltering ==
    /\ [](\A self \in Loggers, m \in Messages, S \in Level, now \in Times :
            LET r == log_body(self, m, S, now)
            IN /\ r.err = ""
               /\ DOMAIN r.ofiles = DOMAIN ofiles[self]
               /\ \A i \in DOMAIN ofiles[self] :
                    IF rank(Top(file_levels[self])) >= rank(S)
                    THEN OneLineMore(ofiles[self][i], r.ofiles[i])
                    ELSE r.ofiles[i] = ofiles[self][i])
    /\ [][\A self \in Loggers :
            ofiles'[self] # ofiles[self] =>
              /\ DOMAIN ofiles'[self] = DOMAIN ofiles[self]
              /\ \A i \in DOMAIN ofiles[self] :
                   /\ OneLineMore(ofiles[self][i], ofiles'[self][i])
                   /\ rank(Top(file_levels[self]))
                        >= ofiles'[self][i][Len(ofiles'[self][i])].lvl]_vars

\* a Debug record in a file sink of a logger whose file threshold was pushed
\* to Debug
C1_Witness ==
    /\ last.err = ""
    /\ file_levels["A"] = <<Warning, Debug>>
    /\ Len(ofiles["A"][1]) = 1
    /\ ofiles["A"][1][1].lvl = 5

\* C2: in every reachable state a call log(m, S) writes one line to the
\* console if console output is enabled and rank(top of the console stack)
\* >= rank(S), and nothing otherwise; and the console only ever changes by
\* one line, of a severity that some logger with console output enabled
\* admits.
C2_ConsoleFiltering ==
    /\ [](\A self \in Loggers, m \in Messages, S \in Level, now \in Times :
            LET r == log_body(self, m, S, now)
            IN IF stdout[self] /\ rank(Top(levels[self])) >= rank(S)
               THEN OneLineMore(console, r.console)
               ELSE r.console = console)
    /\ [][console' # console =>
            /\ OneLineMore(console, console')
            /\ \E self \in Loggers :
                 /\ stdout[self]
                 /\ rank(Top(levels[self]))
                      >= rank(parseSeverity(console'[Len(console')].lvl[2]))
         ]_vars

\* the logger with console output disabled has logged to its files under a
\* console threshold pushed to Debug, and the console is empty
C2_Witness ==
    /\ ~stdout["A"]
    /\ levels["A"] = <<Warning, Debug>>
    /\ Len(ofiles["A"][1]) = 1
    /\ console = <<>>

\* C3: both level stacks of every logger have length 1 at construction and
\* length >= 1 in every reachable state; a successful push adds exactly one
\* element, a successful pop removes exactly one, a failing call none.
C3_NeverEmpty ==
    [](/\ \A l \in Loggers :
            Len(Built[l].file_levels) = 1 /\ Len(Built[l].levels) = 1
       /\ \A l \in Loggers : Len(file_levels[l]) >= 1 /\ Len(levels[l]) >= 1
       /\ \A self \in Loggers, x \in StackArgs :
            LET f == file_level_body(file_levels[self], x)
                c == level_body(levels[self], x)
                d == IF x = None THEN -1 ELSE 1
            IN /\ Len(f.stack) = Len(file_levels[self])
                                   + (IF f.err = "" THEN d ELSE 0)
               /\ Len(c.stack) = Len(levels[self])
                                   + (IF c.err = "" THEN d ELSE 0))

\* a level is pushed on a file stack and a log call has gone through
C3_Witness ==
    /\ last.err = ""
    /\ \E l \in Loggers : Len(file_levels[l]) = 2 /\ Len(levels[l]) = 1
    /\ Lines > 0

\* C4: a pop of a stack of length 1 raises ValueError and returns the stack
\* as it was; and a call that raises this error changes nothing: no stack,
\* no sink, not the console, not _LOG.
C4_FailedPop ==
    /\ [](\A self \in Loggers :
            /\ Len(file_levels[self]) = 1 =>
                 LET f == file_level_body(file_levels[self], None)
                 IN f.err = "ValueError" /\ f.stack = file_levels[self]
            /\ Len(levels[self]) = 1 =>
                 LET c == level_body(levels[self], None)
                 IN c.err = "ValueError" /\ c.stack = levels[self])
    /\ [][last'.err = "ValueError" => UNCHANGED state]_vars

\* a pop has failed on loggers fresh from construction
C4_Witness ==
    /\ last.err = "ValueError"
    /\ \A l \in Loggers :
         file_levels[l] = Built[l].file_levels /\ levels[l] = Built[l].levels

\* C5: in every reachable state, on either channel of every logger, a push
\* of a Level member or of a recognized name followed at once by a pop
\* returns the severity pushed and leaves the stack as it was before the
\* push, so the thresholds a log call compares with have the ranks they
\* had before.
C5_PushPop ==
    \A self \in Loggers, x \in Level \cup {Str(n) : n \in Recognized} :
      LET want == IF x.kind = "Level" THEN x ELSE parseSeverity(x.name)
          f1 == file_level_body(file_levels[self], x)
          f2 == file_level_body(f1.stack, None)
          c1 == level_body(levels[self], x)
          c2 == level_body(c1.stack, None)
      IN /\ f1.err = "" /\ f1.ret = None
         /\ f2 = [stack |-> file_levels[self], err |-> "", ret |-> want]
         /\ c1.err = "" /\ c1.ret = None
         /\ c2 = [stack |-> levels[self], err |-> "", ret |-> want]
         /\ rank(Top(f2.stack)) = rank(Top(file_levels[self]))
         /\ rank(Top(c2.stack)) = rank(Top(levels[self]))

\* a pop has returned Debug and every stack is as it was built
C5_Witness ==
    /\ last = [entry |-> "Log", err |-> "", ret |-> Debug]
    /\ \A l \in Loggers :
         file_levels[l] = Built[l].file_levels /\ levels[l] = Built[l].levels

\* C6: set_global returns the logger that was in _LOG and puts its own
\* logger there; a call of a function of the module leaves _LOG as it is
\* and changes the stacks and sinks of no logger but the one in _LOG, and
\* a push through it lands on top of the stack of the logger in _LOG.
C6_GlobalRouting ==
    [][/\ \A self \in Loggers :
            Log_set_global(self) => LOG' = self /\ last'.ret = PyLog(LOG)
       /\ last'.ret.kind = "Log" => last'.ret = PyLog(LOG)
       /\ last'.entry = "module" =>
            /\ LOG' = LOG
            /\ \A l \in Loggers \ {LOG} :
                 /\ file_levels'[l] = file_levels[l]
                 /\ levels'[l] = levels[l]
                 /\ ofiles'[l] = ofiles[l]
            /\ Len(file_levels'[LOG]) > Len(file_levels[LOG]) =>
                 file_levels'[LOG]
                   = Append(file_levels[LOG], Top(file_levels'[LOG]))
            /\ Len(levels'[LOG]) > Len(levels[LOG]) =>
                 levels'[LOG] = Append(levels[LOG], Top(levels'[LOG]))
      ]_vars

\* B was installed last and a call of the module's log wrote to B's sink
\* and to no sink of A
C6_Witness ==
    /\ LOG = "B"
    /\ last.entry = "module"
    /\ Len(ofiles["B"][1]) = 1
    /\ Len(ofiles["A"][1]) = 0

\* C7: a pop through the module returns the level it removed from the
\* stack of the logger in _LOG.
C7_FacadePopReturns ==
    [][(last'.entry = "module" /\ LOG # "None") =>
         /\ Len(file_levels'[LOG]) < Len(file_levels[LOG]) =>
              last'.ret = Top(file_levels[LOG])
         /\ Len(levels'[LOG]) < Len(levels[LOG]) =>
              last'.ret = Top(levels[LOG])]_vars

\* C8: while _LOG holds no logger, a call of a function of the module
\* raises nothing, returns None and changes no stack, no sink, not the
\* console and not _LOG.
C8_NoGlobalNoOp ==
    [][(LOG = "None" /\ last'.entry = "module") =>
         /\ last'.err = ""
         /\ last'.ret = None
         /\ UNCHANGED state]_vars

\* a function of the module was called while _LOG held no logger
C8_Witness ==
    /\ LOG = "None"
    /\ last = [entry |-> "module", err |-> "", ret |-> None]

\* C9: _ensure_level maps the five lower-case names to their members,
\* raises ValueError for every other text, returns a Level member as it
\* is; so the name of every member parses to the member, parsing a parsed
\* value changes nothing, and the stacks hold Level members only.
C9_Parse ==
    /\ \A x \in LevelArgs :
         LET e == ensure_level(x)
         IN /\ CASE x.kind = "Level" -> e.err = "" /\ e.val = x
                 [] x.kind = "str" /\ x.name \in Recognized ->
                      e.err = "" /\ e.val = parseSeverity(x.name)
                 [] OTHER -> e.err = "ValueError: Invalid level name"
            /\ e.err = "" => ensure_level(e.val) = e
    /\ \A s \in Level : ensure_level(Str(severityToName(s))).val = s
    /\ \A l \in Loggers :
         /\ \A i \in DOMAIN file_levels[l] : file_levels[l][i] \in Level
         /\ \A i \in DOMAIN levels[l] : levels[l][i] \in Level

\* a push of a text that is no level name has failed
C9_Witness ==
    /\ last.err = "ValueError: Invalid level name"
    /\ \E l \in Loggers : Top(file_levels[l]) = Debug /\ Len(file_levels[l]) = 2

\* C10: for every recognized name n, a call log(m, n), on a logger or
\* through the module, is a call log(m, parseSeverity(n)): it raises
\* nothing and writes the same lines.
C10_LogAcceptsNames ==
    [][\A m \in Messages, n \in Recognized :
         /\ \A self \in Loggers :
              Log_log(self, m, Str(n)) => Log_log(self, m, parseSeverity(n))
         /\ log(m, Str(n)) => log(m, parseSeverity(n))]_vars

\* what one call log(m, S) on logger self decides in the current state:
\* whether the file formatter is called (and every sink written), whether
\* a line is printed
decides(self, S) ==
    LET r == log_body(self, CHOOSE m \in Messages : TRUE, S,
                      CHOOSE now \in Times : TRUE)
    IN [file |-> \E i \in DOMAIN r.calls : r.calls[i].fn = "formatter",
        written |-> r.ofiles # ofiles[self],
        console |-> r.console # console]

\* C11: in every reachable state, for every logger and severity S, a log
\* call has the file formatter called (and, where there are sinks, every
\* sink written) exactly when rank(file threshold) >= rank(S), and prints
\* exactly when the console flag is set and rank(console threshold) >=
\* rank(S): the file decision is a function of file threshold and severity
\* alone, the console decision of flag, console threshold and severity
\* alone.
C11_IndependentChecks ==
    [](\A self \in Loggers, S \in Level, m \in Messages, now \in Times :
         LET r == log_body(self, m, S, now)
             toFile == rank(Top(file_levels[self])) >= rank(S)
             toConsole == stdout[self] /\ rank(Top(levels[self])) >= rank(S)
         IN /\ (r.calls # <<>> /\ r.calls[1].fn = "formatter") = toFile
            /\ ofiles[self] # <<>> => (r.ofiles # ofiles[self]) = toFile
            /\ (r.console # console) = toConsole
            /\ (r.calls # <<>>
                 /\ r.calls[Len(r.calls)].fn = "stdout_formatter") = toConsole)

\* a Warning was printed by the logger whose file threshold was pushed to
\* Error and whose sink stayed empty (console only), and in this state the
\* log calls that can be made show all four outcomes
C11_Witness ==
    /\ file_levels["B"] = <<Log, Error>>
    /\ ofiles["B"][1] = <<>>
    /\ Len(console) = 1
    /\ console[1].lvl[2] = "warning"
    /\ {<<decides(self, S).file, decides(self, S).console>> :
           self \in Loggers, S \in Level} = BOOLEAN \X BOOLEAN

\* C12: a logger built without stdout_level starts with the console
\* threshold equal to its file_level; the default logger Log() has both
\* thresholds at Log, console output on and no sink; and whatever is pushed
\* on its file stack, while its console stack is as built a log call on it
\* prints exactly for Error, Warning and Log: info("x") prints nothing.
C12_Defaults ==
    [](/\ \A n \in 0..2, fl \in Level, flag \in BOOLEAN :
            LET o == Log_init(n, fl, flag, None)
            IN o.file_levels = <<fl>> /\ o.levels = <<fl>>
       /\ Built["D"] = [file_levels |-> <<Log>>, levels |-> <<Log>>,
                        stdout |-> TRUE, ofiles |-> <<>>]
       /\ levels["D"] = Built["D"].levels =>
            \A S \in Level :
              decides("D", S).console = (S \in {Error, Warning, Log}))

\* the default logger has printed a record of level Log while its file
\* threshold was pushed to Debug and its console threshold is as built
C12_Witness ==
    /\ file_levels["D"] = <<Log, Debug>>
    /\ \A l \in Loggers : levels[l] = Built[l].levels
    /\ Len(console) = 1
    /\ console[1].lvl[2] = "log"

\* C13: a step that changes a file stack changes the file stack of one
\* logger and no console stack, no console flag, no sink, not the console
\* and not _LOG; a step that changes a console stack changes the console
\* stack of one logger and no file stack, flag, sink, console line or
\* _LOG; a push or pop that fails changes nothing at all.  The console
\* flag of a logger never changes.
C13_IndependentStacks ==
    /\ [](\A l \in Loggers : stdout[l] = Built[l].stdout)
    /\ [][/\ file_levels' # file_levels =>
              /\ UNCHANGED <<levels, stdout, ofiles, LOG, console>>
              /\ \E l \in Loggers :
                   \A k \in Loggers \ {l} : file_levels'[k] = file_levels[k]
          /\ levels' # levels =>
              /\ UNCHANGED <<file_levels, stdout, ofiles, LOG, console>>
              /\ \E l \in Loggers :
                   \A k \in Loggers \ {l} : levels'[k] = levels[k]
          /\ last'.err \in {"ValueError", "ValueError: Invalid level name"}
               => UNCHANGED state
         ]_vars

\* two loggers built without stdout_level: one has a level pushed on its
\* file stack only, the other on its console stack only
C13_Witness ==
    /\ file_levels["D"] = <<Log, Debug>>
    /\ levels["D"] = <<Log>>
    /\ file_levels["A"] = <<Warning>>
    /\ levels["A"] = <<Warning, Error>>

\* C14: in every reachable state a push of a text that is none of the five
\* names raises ValueError (invalid level name) and returns the stack as
\* it was, on either channel; and a call that raises this error changes no
\* stack, no sink, not the console and not _LOG.
C14_InvalidName ==
    /\ [](\A self \in Loggers, n \in Names \ Recognized :
            LET bad == "ValueError: Invalid level name"
            IN /\ file_level_body(file_levels[self], Str(n))
                    = [stack |-> file_levels[self], err |-> bad, ret |-> None]
               /\ level_body(levels[self], Str(n))
                    = [stack |-> levels[self], err |-> bad, ret |-> None])
    /\ [][last'.err = "ValueError: Invalid level name"
            => UNCHANGED state]_vars

\* a push of a text that is no level name has failed on loggers one of
\* which has a level pushed on its console stack
C14_Witness ==
    /\ last.err = "ValueError: Invalid level name"
    /\ levels["B"] = <<Warning, Debug>>
    /\ \A l \in Loggers : file_levels[l] = Built[l].file_levels

\* C15: in every reachable state all sinks of a logger hold the same
\* lines in the same order; a log call the file threshold admits adds the
\* one formatted record at the end of every sink and a call it does not
\* admit adds nothing; and a sink only ever changes by one line added at
\* its end, the same line for every sink of the logger.
C15_SinkOrder ==
    /\ [](\A l \in Loggers :
            \A i, j \in DOMAIN ofiles[l] : ofiles[l][i] = ofiles[l][j])
    /\ [](\A self \in Loggers, m \in Messages, S \in Level, now \in Times :
            log_body(self, m, S, now).ofiles =
              IF rank(Top(file_levels[self])) >= rank(S)
              THEN [i \in DOMAIN ofiles[self] |->
                      Append(ofiles[self][i],
                             json_formatter(Record(now, S, m)))]
              ELSE ofiles[self])
    /\ [][\A l \in Loggers :
            ofiles'[l] # ofiles[l] =>
              /\ ofiles[l] # <<>>
              /\ \A i \in DOMAIN ofiles[l] :
                   ofiles'[l][i]
                     = Append(ofiles[l][i], ofiles'[l][1][Len(ofiles'[l][1])])
         ]_vars

\* the logger with two sinks has logged a Warning and then an Error: both
\* sinks hold the two records in that order
C15_Witness ==
    /\ Len(ofiles["A"][1]) = 2
    /\ ofiles["A"][2] = ofiles["A"][1]
    /\ ofiles["A"][1][1].lvl = 2
    /\ ofiles["A"][1][2].lvl = 1

\* C16: a log call, of a message json_formatter encodes, calls the file
\* formatter at most once, whatever the number of sinks, and then the
\* console formatter at most once; every call of a formatter is handed the
\* record built at the start of the call, with its time, level and
\* message; json_formatter leaves the dict it is given as it was.
C16_OneRecord ==
    [](/\ \A S \in Level, m \in Payloads, now \in Times :
            json_formatter_arg(Record(now, S, m)) = Record(now, S, m)
       /\ \A self \in Loggers, m \in Messages, S \in Level, now \in Times :
            LET r == log_body(self, m, S, now)
                F == [fn |-> "formatter", record |-> Record(now, S, m)]
                C == [fn |-> "stdout_formatter",
                      record |-> Record(now, S, m)]
            IN /\ r.calls \in {<<>>, <<F>>, <<C>>, <<F, C>>}
               /\ r.console # console =>
                    r.console
                      = Append(console, stdout_formatter(Record(now, S, m))))

\* one call has written an Error record to the sink of B and to the
\* console: the two lines carry the same time, level and message
C16_Witness ==
    /\ Len(console) = 1
    /\ Len(ofiles["B"][1]) = 1
    /\ ofiles["B"][1][1].lvl = 1
    /\ console[1].lvl[2] = "error"
    /\ ofiles["B"][1][1].time = isoformat(console[1].time)
    /\ ofiles["B"][1][1].message = console[1].message

\* C17: in every reachable state a log call with a message json_formatter
\* fails on, at a level the file threshold admits, raises TypeError after
\* the one call of the file formatter, writes to no sink and prints
\* nothing, also on a logger that has no sink; at a level the file
\* threshold does not admit the formatter is not called and nothing is
\* raised.  A call that raises TypeError changes no stack, no sink, not
\* the console and not _LOG.
C17_FormatterFailure ==
    /\ [](\A self \in Loggers, o \in Objects, S \in Level, now \in Times :
            LET r == log_body(self, o, S, now)
            IN IF rank(Top(file_levels[self])) >= rank(S)
               THEN r = [err |-> "TypeError", ofiles |-> ofiles[self],
                         console |-> console,
                         calls |-> <<[fn |-> "formatter",
                                      record |-> Record(now, S, o)]>>]
               ELSE /\ r.err = ""
                    /\ r.ofiles = ofiles[self]
                    /\ \A i \in DOMAIN r.calls : r.calls[i].fn # "formatter")
    /\ [][last'.err = "TypeError" => UNCHANGED state]_vars

\* a call of the module's log on the default logger, which has no sink,
\* has raised TypeError and nothing is printed
C17_Witness ==
    /\ LOG = "D"
    /\ ofiles["D"] = <<>>
    /\ last = [entry |-> "module", err |-> "TypeError", ret |-> None]
    /\ console = <<>>

\* C18: the module starts with the default logger in _LOG; in every
\* reachable state _LOG holds a logger, so the functions of the module
\* never take their _LOG is None branch; and every call of set_global
\* returns a logger, never None.
C18_GlobalNeverEmpty ==
    /\ LOG = "D"
    /\ [](LOG \in Loggers)
    /\ [][\A self \in Loggers :
            Log_set_global(self) =>
              /\ last'.ret \in {PyLog(l) : l \in Loggers}
              /\ LOG' \in Loggers]_vars

\* A was installed over B, which was returned
C18_Witness ==
    /\ LOG = "A"
    /\ last = [entry |-> "Log", err |-> "", ret |-> PyLog("B")]

\* C19: a thread between the length test of a pop and the pop has seen a
\* stack of length 2 or more, yet a stack becomes empty: by the pop of a
\* thread whose test saw a longer stack than the one it pops from, another
\* thread having popped in between.  On a logger whose file stack is empty
\* every log call raises IndexError before it writes; with the console
\* stack empty and console output on, it raises after it has written to
\* the files.
C19_PopRace ==
    /\ [](\A t \in Threads :
            pc[t].at \in {"file_pop", "level_pop"} => pc[t].seen >= 2)
    /\ [][\A l \in Loggers :
            /\ (file_levels[l] # <<>> /\ file_levels'[l] = <<>>) =>
                 \E t \in Threads :
                   /\ pc[t].at = "file_pop" /\ pc[t].self = l
                   /\ pc'[t].at = "idle"
                   /\ pc[t].seen > Len(file_levels[l])
            /\ (levels[l] # <<>> /\ levels'[l] = <<>>) =>
                 \E t \in Threads :
                   /\ pc[t].at = "level_pop" /\ pc[t].self = l
                   /\ pc'[t].at = "idle"
                   /\ pc[t].seen > Len(levels[l])]_vars
    /\ [](\A self \in Loggers, m \in Messages, S \in Level, now \in Times :
            LET r == log_body(self, m, S, now)
            IN /\ file_levels[self] = <<>> =>
                    /\ r.err = "IndexError"
                    /\ r.ofiles = ofiles[self]
                    /\ r.console = console
               /\ (file_levels[self] # <<>> /\ levels[self] = <<>>
                     /\ stdout[self]) =>
                    r.err = "IndexError" /\ r.console = console)

\* two pops have emptied the file stack of B, and a log call has raised
\* IndexError
C19_Witness ==
    /\ file_levels["B"] = <<>>
    /\ \A t \in Threads : pc[t].at = "idle"
    /\ last = [entry |-> "Log", err |-> "IndexError", ret |-> None]

\* C20: the store of a set_global puts the caller's logger in _LOG and
\* returns the logger the call read before, whatever _LOG holds by then;
\* when another store came in between, the logger the store replaces is
\* not the one returned.
C20_SetGlobalRace ==
    [][\A t \in Threads :
         (pc[t].at = "store" /\ pc'[t].at = "idle") =>
           /\ LOG' = pc[t].self
           /\ last'.ret = PyLog(pc[t].prev)
           /\ pc'[t].over = LOG
           /\ pc'[t].prev = pc[t].prev
           /\ pc[t].prev # LOG => last'.ret # PyLog(LOG)]_vars

\* over the default logger one thread has installed A and the other B:
\* both calls returned the default logger, and A, which the second store
\* replaced, was returned to neither
C20_Witness ==
    /\ LOG = "B"
    /\ pc["t1"] = [at |-> "idle", self |-> "A", seen |-> 0, prev |-> "D",
                   over |-> "D"]
    /\ pc["t2"] = [at |-> "idle", self |-> "B", seen |-> 0, prev |-> "D",
                   over |-> "A"]
    /\ last.ret = PyLog("D")

====
